---- MODULE Spec2Model ----
(***************************************************************************)
(* Model of the startup profiler: the orchestrator profile_company         *)
(* (src/src/agents/startup_profiler_agent.py), the profile store           *)
(* (src/src/models/database.py), the news fetcher                          *)
(* (src/src/tools/news_fetcher.py), the page scraper                       *)
(* (src/src/tools/web_scraper.py) and the response parser of the analyzer  *)
(* (src/src/tools/gemini_analyzer.py).                                     *)
(*                                                                         *)
(* A Python str is a sequence of one-character strings, a Python dict a    *)
(* function from its keys, a Python list a sequence.  The text of a        *)
(* generative-backend response is a sequence of lexical tokens.            *)
(***************************************************************************)
EXTENDS Naturals, Sequences, FiniteSets, TLC

(***************************************************************************)
(* Python values                                                           *)
(***************************************************************************)
\* Python's None.
None == [py |-> "None"]

\* The empty str and the empty dict.
EmptyStr == <<>>
EmptyDict == [k \in {} |-> None]

\* dict.get(key, default)
Get(d, key, default) == IF key \in DOMAIN d THEN d[key] ELSE default

(***************************************************************************)
(* str methods used by the store and the orchestrator                      *)
(***************************************************************************)
UpperChars == <<"A", "B", "C", "E", "H", "L", "M", "O", "P", "S", "T", "W", "X">>
LowerChars == <<"a", "b", "c", "e", "h", "l", "m", "o", "p", "s", "t", "w", "x">>
Digits == {"0", "1", "2", "3", "4", "5", "6", "7", "8", "9"}

IsUpperChar(c) == \E i \in 1..Len(UpperChars) : UpperChars[i] = c
IsLowerChar(c) == \E i \in 1..Len(LowerChars) : LowerChars[i] = c

LowerChar(c) ==
    IF IsUpperChar(c)
    THEN LowerChars[CHOOSE i \in 1..Len(UpperChars) : UpperChars[i] = c]
    ELSE c

UpperChar(c) ==
    IF IsLowerChar(c)
    THEN UpperChars[CHOOSE i \in 1..Len(LowerChars) : LowerChars[i] = c]
    ELSE c

\* str.lower()
Lower(s) == [i \in 1..Len(s) |-> LowerChar(s[i])]

\* str.capitalize(): first character upper-cased, the rest lower-cased
Capitalize(s) == [i \in 1..Len(s) |-> IF i = 1 THEN UpperChar(s[i]) ELSE LowerChar(s[i])]

\* s[from:] with a 0-based Python index
Tail0(s, from) == SubSeq(s, from + 1, Len(s))

\* s[:to] with a 0-based Python index
Head0(s, to) == SubSeq(s, 1, to)

\* s.startswith(pat)
StartsWith(s, pat) == Len(s) >= Len(pat) /\ SubSeq(s, 1, Len(pat)) = pat

\* 0-based index of the first character of s that is in cs, Len(s) if none
FirstOf(s, cs) ==
    IF \E i \in 1..Len(s) : s[i] \in cs
    THEN (CHOOSE i \in 1..Len(s) : s[i] \in cs /\ \A j \in 1..(i - 1) : s[j] \notin cs) - 1
    ELSE Len(s)

\* s.replace(pat, ''): every non-overlapping occurrence of pat, left to right
RECURSIVE Remove(_, _)
Remove(s, pat) ==
    IF Len(s) = 0 THEN s
    ELSE IF StartsWith(s, pat) THEN Remove(Tail0(s, Len(pat)), pat)
    ELSE <<s[1]>> \o Remove(Tail0(s, 1), pat)

\* s.rstrip(c): every trailing c
RECURSIVE RStrip(_, _)
RStrip(s, c) ==
    IF Len(s) > 0 /\ s[Len(s)] = c THEN RStrip(Head0(s, Len(s) - 1), c) ELSE s

\* s.split(c)[0]
FirstPart(s, c) == Head0(s, FirstOf(s, {c}))

(***************************************************************************)
(* urllib.parse.urlparse, on strings without whitespace, brackets or ';'   *)
(***************************************************************************)
SchemeChars == {UpperChars[i] : i \in 1..Len(UpperChars)}
               \cup {LowerChars[i] : i \in 1..Len(LowerChars)}
               \cup Digits \cup {"+", "-", "."}

IsAlpha(c) == IsUpperChar(c) \/ IsLowerChar(c)

\* urlsplit: url[:i], i the index of the first ':', is a scheme when i > 0,
\* url[0] is a letter and every character before the ':' is a scheme character
IsScheme(url, i) ==
    /\ i < Len(url)
    /\ i > 0
    /\ IsAlpha(url[1])
    /\ \A j \in 1..i : url[j] \in SchemeChars

\* urlsplit: <<scheme, rest>>, the scheme lower-cased
SplitScheme(url, i) ==
    IF IsScheme(url, i) THEN <<Lower(Head0(url, i)), Tail0(url, i + 1)>> ELSE <<EmptyStr, url>>

\* <<s[:i], s[i:]>>
CutAt(s, i) == <<Head0(s, i), Tail0(s, i)>>

\* _splitnetloc(url, 2): the netloc ends before the first of '/', '?', '#'
_splitnetloc(after) == CutAt(after, FirstOf(after, {"/", "?", "#"}))

\* urlsplit: <<netloc, rest>>; there is a netloc only after a leading '//'
SplitNetloc(rest) ==
    IF StartsWith(rest, <<"/", "/">>) THEN _splitnetloc(Tail0(rest, 2)) ELSE <<EmptyStr, rest>>

\* s.split(c, 1)[0] when c is in s, s otherwise
Before(s, c) == Head0(s, FirstOf(s, {c}))

\* A urlsplit whose path keeps the query
PathOf_keeps_query(rest) == Before(rest, "#")

\* urlsplit: the fragment is cut off first, then the query
PathOf(rest) == Before(Before(rest, "#"), "?")

ParseResult(scheme, netloc_rest) ==
    [scheme |-> scheme, netloc |-> netloc_rest[1], path |-> PathOf(netloc_rest[2])]

AfterScheme(scheme_rest) == ParseResult(scheme_rest[1], SplitNetloc(scheme_rest[2]))

urlparse(url) == AfterScheme(SplitScheme(url, FirstOf(url, {":"})))

WwwDot == <<"w", "w", "w", ".">>
Http == <<"h", "t", "t", "p">>
Https == <<"h", "t", "t", "p", "s">>

\* 'https' if parsed.scheme in ['http', 'https'] else parsed.scheme
ForceHttps(scheme) == IF scheme \in {Http, Https} THEN Https ELSE scheme

\* f"{scheme}://{netloc}{parsed.path}".rstrip('/')
NormalizeParsed(parsed) ==
    RStrip(ForceHttps(parsed.scheme) \o <<":", "/", "/">>
             \o Remove(parsed.netloc, WwwDot) \o parsed.path,
           "/")

\* _normalize_url without url.lower()
_normalize_url_cased(url) == NormalizeParsed(urlparse(url))

\* SupabaseManager._normalize_url
_normalize_url(url) == NormalizeParsed(urlparse(Lower(url)))

\* StartupProfilerAgent._extract_company_name
_extract_company_name(url) ==
    Capitalize(FirstPart(Remove(urlparse(url).netloc, WwwDot), "."))

(***************************************************************************)
(* Results of a call that may raise: a value, or an exception with its     *)
(* text str(e)                                                             *)
(***************************************************************************)
Ok(v) == [raised |-> FALSE, value |-> v]
Raise(e) == [raised |-> TRUE, exc |-> e]

Min(a, b) == IF a <= b THEN a ELSE b

(***************************************************************************)
(* Profile store: the table company_profiles, website_url UNIQUE           *)
(***************************************************************************)
\* select ... eq("website_url", key): the rows of the table with that key
SelectByUrl(table, key) == {row \in table : row.website_url = key}

\* check_company_exists comparing the URL as given, not its normalized form
check_company_exists_unnormalized(website_url, table, backend_ok) ==
    IF backend_ok THEN SelectByUrl(table, website_url) # {} ELSE FALSE

\* check_company_exists answering "exists" when the backend fails
check_company_exists_true_on_error(website_url, table, backend_ok) ==
    IF backend_ok THEN SelectByUrl(table, _normalize_url(website_url)) # {} ELSE TRUE

\* SupabaseManager.check_company_exists; backend_ok: the select is answered
check_company_exists(website_url, table, backend_ok) ==
    IF backend_ok
    THEN SelectByUrl(table, _normalize_url(website_url)) # {}
    ELSE FALSE

\* SupabaseManager.get_company_profile
\* result.data[0] if result.data else None
FirstOrNone(data) == IF data # {} THEN CHOOSE row \in data : TRUE ELSE None

get_company_profile(website_url, table, backend_ok) ==
    IF backend_ok
    THEN FirstOrNone(SelectByUrl(table, _normalize_url(website_url)))
    ELSE None

\* The record save_company_profile builds from profile_data (created_at and
\* updated_at, wall-clock values nothing reads, are left out)
SaveRecord(profile_data) ==
    [website_url           |-> _normalize_url(profile_data["website_url"]),
     company_name          |-> Get(profile_data, "company_name", ""),
     page_title            |-> Get(profile_data, "page_title", ""),
     meta_description      |-> Get(profile_data, "meta_description", ""),
     company_summary       |-> Get(profile_data, "company_summary", ""),
     industry_category     |-> Get(profile_data, "industry_category", ""),
     target_audience       |-> Get(profile_data, "target_audience", ""),
     key_problems_solved   |-> Get(profile_data, "key_problems_solved", <<>>),
     potential_competitors |-> Get(profile_data, "potential_competitors", <<>>),
     news_summary          |-> Get(profile_data, "news_summary", ""),
     h1_tags               |-> Get(profile_data, "h1_tags", <<>>),
     h2_tags               |-> Get(profile_data, "h2_tags", <<>>),
     outbound_links        |-> Get(profile_data, "outbound_links", <<>>),
     latest_news           |-> Get(profile_data, "latest_news", <<>>),
     scraped_content       |-> Get(profile_data, "scraped_content", "")]

\* The row the table gives a record: id is generated, unique among the rows
WithId(record, table) == [k \in DOMAIN record \cup {"id"} |->
                             IF k = "id" THEN Cardinality(table) + 1 ELSE record[k]]

\* insert(record).execute(); backend: "fail" (the call errors), "ok" (the
\* inserted row is returned), "ok_empty" (inserted, no row returned).  The
\* UNIQUE constraint on website_url rejects a second row with the same key.
\* The result carries the table after the call.
\* An insert that replaces the row of an equal key (an upsert)
Insert_upsert(record, table, backend) ==
    IF backend = "fail"
    THEN [table |-> table, out |-> Raise("store backend error")]
    ELSE [table |-> (table \ SelectByUrl(table, record.website_url))
                        \cup {WithId(record, table)},
          out   |-> Ok(<<WithId(record, table)>>)]

Inserted(row, table, backend) ==
    [table |-> table \cup {row}, out |-> Ok(IF backend = "ok" THEN <<row>> ELSE <<>>)]

Insert(record, table, backend) ==
    IF backend = "fail"
    THEN [table |-> table, out |-> Raise("store backend error")]
    ELSE IF SelectByUrl(table, record.website_url) # {}
    THEN [table |-> table, out |-> Raise("duplicate key value violates unique constraint")]
    ELSE Inserted(WithId(record, table), table, backend)

\* SupabaseManager.save_company_profile
\* return result.data[0] without the guard: IndexError when no row comes back
SaveOutcome_unguarded(ins) ==
    IF ins.out.raised
    THEN ins
    ELSE [table |-> ins.table,
          out   |-> IF Len(ins.out.value) > 0
                    THEN Ok(ins.out.value[1])
                    ELSE Raise("list index out of range")]

\* return result.data[0] if result.data else {}; an exception is re-raised
SaveOutcome(ins) ==
    IF ins.out.raised
    THEN ins
    ELSE [table |-> ins.table,
          out   |-> Ok(IF Len(ins.out.value) > 0 THEN ins.out.value[1] ELSE EmptyDict)]

save_company_profile(profile_data, table, backend) ==
    SaveOutcome(Insert(SaveRecord(profile_data), table, backend))

(***************************************************************************)
(* Page scraper                                                            *)
(***************************************************************************)
MaxLinks == 20

\* What the HTML parser finds in a fetched document
Pages ==
    {[title |-> "Acme", meta_description |-> "we make things",
      h1_tags |-> <<"h1">>, h2_tags |-> <<"h2">>,
      outbound_links |-> <<"https://other.example/">>, content |-> "body text"]}

\* What requests.get + raise_for_status can do: fail, or deliver a document
HttpOutcomes == {Raise("fetch failed")} \cup {Ok(page) : page \in Pages}

\* WebScraper.scrape_website (the 5000-character cut of content is not
\* modelled: content is an atomic text)
scrape_website(url, http) ==
    IF http.raised
    THEN http
    ELSE Ok([url              |-> url,
             title            |-> http.value.title,
             meta_description |-> http.value.meta_description,
             h1_tags          |-> http.value.h1_tags,
             h2_tags          |-> http.value.h2_tags,
             outbound_links   |-> Head0(http.value.outbound_links,
                                        Min(Len(http.value.outbound_links), MaxLinks)),
             content          |-> http.value.content])

(***************************************************************************)
(* News fetcher                                                            *)
(***************************************************************************)
NumResults == 5

NewsHit == [title |-> "news title", snippet |-> "news snippet", link |-> "news link",
            date |-> "today", source |-> [isdict |-> TRUE, d |-> [name |-> "news source"]]]
NewsHitPlainSource == [title |-> "news title", link |-> "news link",
                       source |-> [isdict |-> FALSE, s |-> "plain source"]]
OrganicHit == [title |-> "web title", link |-> "web link",
               displayed_link |-> "web.example"]

\* What GoogleSearch(params).get_dict() can do: fail, or return a dict that
\* has or lacks the keys news_results and organic_results
ProviderOutcomes ==
    {Raise("search provider error"),
     Ok(EmptyDict),
     Ok([news_results |-> <<NewsHit, NewsHitPlainSource>>, organic_results |-> <<OrganicHit>>]),
     Ok([news_results |-> <<>>, organic_results |-> <<OrganicHit>>]),
     Ok([organic_results |-> <<OrganicHit>>])}

\* article.get("source", {}).get("name", "") if the source is a dict, else
\* article.get("source", "")
SourceName(article) ==
    IF "source" \notin DOMAIN article THEN ""
    ELSE IF article.source.isdict THEN Get(article.source.d, "name", "")
    ELSE article.source.s

FromNewsResult(article) ==
    [title       |-> Get(article, "title", ""),
     snippet     |-> Get(article, "snippet", ""),
     source      |-> Get(article, "link", ""),
     date        |-> Get(article, "date", ""),
     source_name |-> SourceName(article)]

FromOrganicResult(r) ==
    [title       |-> Get(r, "title", ""),
     snippet     |-> Get(r, "snippet", ""),
     source      |-> Get(r, "link", ""),
     date        |-> Get(r, "date", ""),
     source_name |-> Get(r, "displayed_link", "")]

\* the first num_results results, each turned into a news item
FirstNews(list, n) == [i \in 1..Min(Len(list), n) |-> FromNewsResult(list[i])]

FirstOrganic(list, n) == [i \in 1..Min(Len(list), n) |-> FromOrganicResult(list[i])]

\* fetch_company_news whose except clause returns nothing (None)
fetch_company_news_none(provider) ==
    IF provider.raised THEN None
    ELSE IF "news_results" \in DOMAIN provider.value
    THEN FirstNews(provider.value.news_results, NumResults)
    ELSE IF "organic_results" \in DOMAIN provider.value
    THEN FirstOrganic(provider.value.organic_results, NumResults)
    ELSE <<>>

\* NewsFetcher.fetch_company_news: never raises
fetch_company_news(provider) ==
    IF provider.raised THEN <<>>
    ELSE IF "news_results" \in DOMAIN provider.value
    THEN FirstNews(provider.value.news_results, NumResults)
    ELSE IF "organic_results" \in DOMAIN provider.value
    THEN FirstOrganic(provider.value.organic_results, NumResults)
    ELSE <<>>

(***************************************************************************)
(* Analyzer: the response text is a sequence of tokens                     *)
(***************************************************************************)
Tok(t) == [t |-> t, k |-> "", v |-> ""]
Member(k, v) == [t |-> "member", k |-> k, v |-> v]

\* The fixed structure _parse_response returns when the text does not parse
Placeholder ==
    [company_summary       |-> "Unable to generate summary",
     industry_category     |-> "Unknown",
     target_audience       |-> "Unknown",
     key_problems_solved   |-> <<>>,
     potential_competitors |-> <<>>,
     news_summary          |-> "Unable to summarize news"]

\* A JSON value: an object (a dict) or an array of objects (a list)
JsonObject(d) == [type |-> "dict", d |-> d]
JsonArray(items) == [type |-> "list", d |-> EmptyDict, items |-> items]

IsObjectText(toks) ==
    /\ Len(toks) >= 2
    /\ toks[1].t = "{"
    /\ toks[Len(toks)].t = "}"
    /\ \A i \in 2..(Len(toks) - 1) : toks[i].t = "member"

\* The dict of an object text: a later member with the same key wins
ObjectOf(toks) ==
    [k \in {toks[i].k : i \in 2..(Len(toks) - 1)} |->
        toks[CHOOSE i \in 2..(Len(toks) - 1) :
                /\ toks[i].k = k
                /\ \A j \in (i + 1)..(Len(toks) - 1) : toks[j].k # k].v]

\* 1-based index of the first '}' of toks, Len(toks) + 1 if none
FirstClose(toks) == FirstOf([i \in 1..Len(toks) |-> toks[i].t], {"}"}) + 1

\* toks is a run of zero or more object texts (the elements of an array;
\* the separating commas are not tokens of their own)
RECURSIVE IsObjectList(_)
ObjectListAt(toks, k) ==
    /\ k <= Len(toks)
    /\ IsObjectText(Head0(toks, k))
    /\ IsObjectList(Tail0(toks, k))

IsObjectList(toks) == Len(toks) = 0 \/ ObjectListAt(toks, FirstClose(toks))

IsArrayText(toks) ==
    /\ Len(toks) >= 2
    /\ toks[1].t = "["
    /\ toks[Len(toks)].t = "]"
    /\ IsObjectList(SubSeq(toks, 2, Len(toks) - 1))

\* The dicts of a run of object texts
RECURSIVE ObjectsOf(_)
ObjectsAt(toks, k) == <<ObjectOf(Head0(toks, k))>> \o ObjectsOf(Tail0(toks, k))

ObjectsOf(toks) == IF Len(toks) = 0 THEN <<>> ELSE ObjectsAt(toks, FirstClose(toks))

\* json.loads: JSONDecodeError on a text that is no JSON document
json_loads(toks) ==
    IF IsObjectText(toks) THEN Ok(JsonObject(ObjectOf(toks)))
    ELSE IF IsArrayText(toks)
    THEN Ok(JsonArray(ObjectsOf(SubSeq(toks, 2, Len(toks) - 1))))
    ELSE Raise("JSONDecodeError")

\* text.find('{'): 0-based, Len(text) when absent
FindOpen(toks) == FirstOf([i \in 1..Len(toks) |-> toks[i].t], {"{"})

\* text.rfind('}') + 1: 0 when absent
RFindClosePlus1(toks) ==
    IF \E i \in 1..Len(toks) : toks[i].t = "}"
    THEN CHOOSE i \in 1..Len(toks) :
            toks[i].t = "}" /\ \A j \in (i + 1)..Len(toks) : toks[j].t # "}"
    ELSE 0

\* GeminiAnalyzer._parse_response
\* The text _parse_response hands to json.loads
JsonStr(response_text, start_idx, end_idx) ==
    IF start_idx < Len(response_text) /\ end_idx > start_idx
    THEN SubSeq(response_text, start_idx + 1, end_idx)
    ELSE response_text

\* An except clause that returns an empty structure instead of the default one
OrPlaceholder_empty(parsed) == IF parsed.raised THEN JsonObject(EmptyDict) ELSE parsed.value

\* except json.JSONDecodeError: return the default structure
OrPlaceholder(parsed) == IF parsed.raised THEN JsonObject(Placeholder) ELSE parsed.value

\* GeminiAnalyzer._parse_response
_parse_response(response_text) ==
    OrPlaceholder(json_loads(JsonStr(response_text, FindOpen(response_text),
                                     RFindClosePlus1(response_text))))

\* What model.generate_content(prompt) can return as response.text
InsightMembers ==
    <<Member("company_summary", "a summary"),
      Member("industry_category", "an industry"),
      Member("target_audience", "an audience"),
      Member("key_problems_solved", <<"a problem">>),
      Member("potential_competitors", <<"a competitor">>),
      Member("news_summary", "a news summary")>>

UrlPlain == <<"h", "t", "t", "p", "s", ":", "/", "/", "a", "c", "m", "e", ".", "c", "o">>
UrlShouting == <<"H", "T", "T", "P", ":", "/", "/", "W", "W", "W", ".", "A", "c", "m", "e",
                 ".", "c", "o", "/">>
UrlOther == <<"h", "t", "t", "p", "s", ":", "/", "/", "b", ".", "c", "o", "/", "p">>

ResponseTexts ==
    {<<Tok("txt"), Tok("{")>> \o InsightMembers \o <<Tok("}"), Tok("txt")>>,
     <<Tok("txt")>>,
     <<Tok("["), Tok("]")>>,
     <<Tok("{")>> \o InsightMembers \o <<Member("website_url", UrlOther), Tok("}")>>}

\* The generative backend: the call fails, or returns a text
BackendOutcomes == {Raise("generative backend error")} \cup {Ok(t) : t \in ResponseTexts}

\* GeminiAnalyzer.analyze_company: a failure of the call is re-raised, an
\* unparseable text is not a failure
analyze_company(backend) ==
    IF backend.raised THEN backend ELSE Ok(_parse_response(backend.value))

(***************************************************************************)
(* Orchestrator: StartupProfilerAgent.profile_company                      *)
(***************************************************************************)
\* Callers that may run profile_company at the same time, and the number of
\* calls a behaviour makes
Procs == {"p1", "p2"}
MaxCalls == 2

RawUrls == {UrlPlain, UrlShouting, UrlOther}

VARIABLES
    store,          \* the rows of the table company_profiles
    pc,             \* where each caller is in profile_company
    website_url,    \* the argument of each caller's current call
    scraped_data,   \* local of profile_company
    news_data,      \* local of profile_company (the empty list while unset)
    analysis,       \* local of profile_company
    log,            \* the collaborator calls the current call has made, in order
    returned,       \* the call that has just returned: its caller, argument, result, log
    succeeded,      \* the arguments of the calls that returned status success
    ncalls,         \* calls started so far
    arg,            \* the argument of a function that is called on its own
    ret             \* what that function returned (None before it returns)

vars == <<store, pc, website_url, scraped_data, news_data, analysis, log, returned,
          succeeded, ncalls, arg, ret>>

\* An except clause that catches the fetch failure only: any other
\* exception leaves profile_company
ErrorResult_fetch_only(exc) ==
    IF exc = "fetch failed"
    THEN [status |-> "error", message |-> exc, data |-> None]
    ELSE [status |-> "raised", message |-> exc, data |-> None]

\* The value the except clause of profile_company returns
ErrorResult(exc) == [status |-> "error", message |-> exc, data |-> None]

ExistsResult(data) ==
    [status |-> "exists", message |-> "Company profile already exists in database",
     data |-> data]

SuccessResult(saved_profile) ==
    [status |-> "success", message |-> "Company profile created successfully",
     data |-> saved_profile]

\* company_name or scraped_data.get('title', '')
NameOrTitle(company_name, scraped) ==
    IF company_name # EmptyStr THEN company_name ELSE Get(scraped, "title", "")

\* The dict literal profile_data: the keys of analysis are spread last, so
\* they replace equal keys written before them; a value that is no mapping
\* cannot be spread (TypeError)
ProfileData(url, scraped, news, an) ==
    IF an.type # "dict"
    THEN Raise("'list' object is not a mapping")
    ELSE Ok(an.d @@
            [website_url      |-> url,
             company_name     |-> NameOrTitle(_extract_company_name(url), scraped),
             page_title       |-> Get(scraped, "title", ""),
             meta_description |-> Get(scraped, "meta_description", ""),
             h1_tags          |-> Get(scraped, "h1_tags", <<>>),
             h2_tags          |-> Get(scraped, "h2_tags", <<>>),
             outbound_links   |-> Get(scraped, "outbound_links", <<>>),
             scraped_content  |-> Get(scraped, "content", ""),
             latest_news      |-> news])

\* The log of caller p with one more collaborator call
LogWith(p, op, ok) == Append(log[p], [op |-> op, ok |-> ok])

\* profile_company returns res to caller p: its locals are gone
Return(p, res, calls) ==
    /\ returned' = [caller |-> p, website_url |-> website_url[p], result |-> res,
                    log |-> calls]
    /\ succeeded' = IF res.status = "success"
                    THEN succeeded \cup {website_url[p]} ELSE succeeded
    /\ pc' = [pc EXCEPT ![p] = "idle"]
    /\ website_url' = [website_url EXCEPT ![p] = EmptyStr]
    /\ scraped_data' = [scraped_data EXCEPT ![p] = None]
    /\ news_data' = [news_data EXCEPT ![p] = <<>>]
    /\ analysis' = [analysis EXCEPT ![p] = None]
    /\ log' = [log EXCEPT ![p] = <<>>]
    /\ UNCHANGED <<arg, ret>>

\* profile_company goes on to the step at label next
Goto(p, next, calls) ==
    /\ pc' = [pc EXCEPT ![p] = next]
    /\ log' = [log EXCEPT ![p] = calls]
    /\ UNCHANGED <<website_url, returned, succeeded, arg, ret>>

\* No call of profile_company has been made
NoCall ==
    /\ store = {}
    /\ pc = [p \in Procs |-> "idle"]
    /\ website_url = [p \in Procs |-> EmptyStr]
    /\ scraped_data = [p \in Procs |-> None]
    /\ news_data = [p \in Procs |-> <<>>]
    /\ analysis = [p \in Procs |-> None]
    /\ log = [p \in Procs |-> <<>>]
    /\ returned = None
    /\ succeeded = {}
    /\ ncalls = 0

Init ==
    /\ NoCall
    /\ arg = None
    /\ ret = None

\* A caller calls profile_company(u)
Start(p, u) ==
    /\ pc[p] = "idle"
    /\ ncalls < MaxCalls
    /\ ncalls' = ncalls + 1
    /\ pc' = [pc EXCEPT ![p] = "check"]
    /\ website_url' = [website_url EXCEPT ![p] = u]
    /\ returned' = None
    /\ UNCHANGED <<store, scraped_data, news_data, analysis, log, succeeded, arg, ret>>

\* if self.db_manager.check_company_exists(website_url)
CheckExists(p) ==
    /\ pc[p] = "check"
    /\ \E backend_ok \in BOOLEAN :
        Goto(p, IF check_company_exists(website_url[p], store, backend_ok)
                THEN "get" ELSE "scrape",
             LogWith(p, "exists", backend_ok))
    /\ UNCHANGED <<store, scraped_data, news_data, analysis, ncalls>>

\* return {status: exists, data: get_company_profile(website_url)}
GetProfile(p) ==
    /\ pc[p] = "get"
    /\ \E backend_ok \in BOOLEAN :
        Return(p, ExistsResult(get_company_profile(website_url[p], store, backend_ok)),
               LogWith(p, "get", backend_ok))
    /\ UNCHANGED <<store, ncalls>>

\* scraped_data = self.web_scraper.scrape_website(website_url)
\* A fetch failure that is swallowed like a search-provider failure: the
\* call goes on with an empty page
Scraped_swallowed(p, r) ==
    /\ scraped_data' = [scraped_data EXCEPT ![p] = IF r.raised THEN EmptyDict ELSE r.value]
    /\ Goto(p, "news", LogWith(p, "scrape", ~r.raised))
    /\ UNCHANGED <<news_data, analysis>>

\* A call that hands the page to the analyzer without fetching the news
Scraped_skips_news(p, r) ==
    IF r.raised
    THEN Return(p, ErrorResult(r.exc), LogWith(p, "scrape", FALSE))
    ELSE /\ scraped_data' = [scraped_data EXCEPT ![p] = r.value]
         /\ Goto(p, "analyze", LogWith(p, "scrape", TRUE))
         /\ UNCHANGED <<news_data, analysis>>

Scraped(p, r) ==
    IF r.raised
    THEN Return(p, ErrorResult(r.exc), LogWith(p, "scrape", FALSE))
    ELSE /\ scraped_data' = [scraped_data EXCEPT ![p] = r.value]
         /\ Goto(p, "news", LogWith(p, "scrape", TRUE))
         /\ UNCHANGED <<news_data, analysis>>

Scrape(p) ==
    /\ pc[p] = "scrape"
    /\ \E http \in HttpOutcomes : Scraped(p, scrape_website(website_url[p], http))
    /\ UNCHANGED <<store, ncalls>>

\* news_data = self.news_fetcher.fetch_company_news(...)
FetchNews(p) ==
    /\ pc[p] = "news"
    /\ \E provider \in ProviderOutcomes :
        /\ news_data' = [news_data EXCEPT ![p] = fetch_company_news(provider)]
        /\ Goto(p, "analyze", LogWith(p, "news", ~provider.raised))
    /\ UNCHANGED <<store, scraped_data, analysis, ncalls>>

\* analysis = self.gemini_analyzer.analyze_company(scraped_data, news_data)
Analyzed(p, r) ==
    IF r.raised
    THEN Return(p, ErrorResult(r.exc), LogWith(p, "analyze", FALSE))
    ELSE /\ analysis' = [analysis EXCEPT ![p] = r.value]
         /\ Goto(p, "save", LogWith(p, "analyze", TRUE))
         /\ UNCHANGED <<scraped_data, news_data>>

Analyze(p) ==
    /\ pc[p] = "analyze"
    /\ \E backend \in BackendOutcomes : Analyzed(p, analyze_company(backend))
    /\ UNCHANGED <<store, ncalls>>

\* The profile_data of caller p's call
ProfileDataOf(p) == ProfileData(website_url[p], scraped_data[p], news_data[p], analysis[p])

\* profile_data = {...}: the spread of analysis fails before the store is called
AssembleFails(p) ==
    /\ pc[p] = "save"
    /\ ProfileDataOf(p).raised
    /\ Return(p, ErrorResult(ProfileDataOf(p).exc), log[p])
    /\ UNCHANGED <<store, ncalls>>

Saved(p, s) ==
    /\ store' = s.table
    /\ Return(p, IF s.out.raised THEN ErrorResult(s.out.exc) ELSE SuccessResult(s.out.value),
              LogWith(p, "save", ~s.out.raised))

\* saved_profile = self.db_manager.save_company_profile(profile_data)
Save(p) ==
    /\ pc[p] = "save"
    /\ ~ProfileDataOf(p).raised
    /\ \E backend \in {"fail", "ok", "ok_empty"} :
        Saved(p, save_company_profile(ProfileDataOf(p).value, store, backend))
    /\ UNCHANGED ncalls

\* The steps of a running call
Step(p) ==
    \/ CheckExists(p)
    \/ GetProfile(p)
    \/ Scrape(p)
    \/ FetchNews(p)
    \/ Analyze(p)
    \/ AssembleFails(p)
    \/ Save(p)

\* One caller, as the command-line entry point: a call starts when the
\* previous one has returned
Next ==
    \/ \E u \in RawUrls : Start("p1", u)
    \/ Step("p1")

Spec == Init /\ [][Next]_vars

\* Two callers sharing the store, as two sessions of the web front end:
\* calls overlap
ConcurrentNext ==
    \E p \in Procs :
        \/ \E u \in RawUrls : Start(p, u)
        \/ Step(p)

ConcurrentSpec == Init /\ [][ConcurrentNext]_vars

\* One caller whose URLs differ only by a query string or a fragment
UrlQuery == UrlPlain \o <<"?", "x", "=", "1">>
UrlFragment == UrlPlain \o <<"#", "t", "o", "p">>

QueryUrls == {UrlPlain, UrlQuery, UrlFragment}

QueryNext ==
    \/ \E u \in QueryUrls : Start("p1", u)
    \/ Step("p1")

QuerySpec == Init /\ [][QueryNext]_vars

(***************************************************************************)
(* Functions called on their own, on every argument of a bounded set       *)
(***************************************************************************)
\* The variables of profile_company, which these calls leave alone
profiler_vars == <<store, pc, website_url, scraped_data, news_data, analysis, log,
                   returned, succeeded, ncalls>>

\* The longest response text, in tokens
MaxTokens == 6

\* The tokens of a response text: prose, braces, brackets, a member of an object
Tokens == {Tok("txt"), Tok("{"), Tok("}"), Tok("["), Tok("]"),
           Member("company_summary", "a summary")}

\* response.text: every text of at most MaxTokens tokens
Texts == UNION {[1..n -> Tokens] : n \in 0..MaxTokens}

ParseInit ==
    /\ NoCall
    /\ arg \in Texts
    /\ ret = None

\* analysis = self._parse_response(response.text)
ParseResponse ==
    /\ ret = None
    /\ ret' = Ok(_parse_response(arg))
    /\ UNCHANGED <<profiler_vars, arg>>

ParseNext == ParseResponse

ParseSpec == ParseInit /\ [][ParseNext]_vars

\* The most results of one kind in a response of the search provider
MaxHits == 6

\* Result lists of at most MaxHits results
NewsLists == UNION {[1..n -> {NewsHit, NewsHitPlainSource}] : n \in 0..MaxHits}
OrganicLists == UNION {[1..n -> {OrganicHit}] : n \in 0..MaxHits}

\* search.get_dict(): the call fails, or returns a dict that has or lacks
\* the keys news_results and organic_results
ProviderResponses ==
    {Raise("search provider error"), Ok(EmptyDict)}
    \cup {Ok([news_results |-> n]) : n \in NewsLists}
    \cup {Ok([organic_results |-> o]) : o \in OrganicLists}
    \cup {Ok([news_results |-> n, organic_results |-> o]) :
             n \in NewsLists, o \in OrganicLists}

NewsInit ==
    /\ NoCall
    /\ arg \in ProviderResponses
    /\ ret = None

\* news_data = self.news_fetcher.fetch_company_news(company_name)
FetchCompanyNews ==
    /\ ret = None
    /\ ret' = Ok(fetch_company_news(arg))
    /\ UNCHANGED <<profiler_vars, arg>>

NewsNext == FetchCompanyNews

NewsSpec == NewsInit /\ [][NewsNext]_vars

\* The most repetitions of 'www.' before a host and of '/' after a path
MaxRepeat == 2

\* s repeated n times
RECURSIVE Repeat(_, _)
Repeat(s, n) == IF n = 0 THEN EmptyStr ELSE s \o Repeat(s, n - 1)

SchemeSep == <<":", "/", "/">>

\* The parts URL strings are made of
UrlSchemes ==
    {EmptyStr, Http \o SchemeSep, <<"H", "T", "T", "P">> \o SchemeSep, Https \o SchemeSep,
     <<"w", "s">> \o SchemeSep}
UrlWwws == {Repeat(WwwDot, n) : n \in 0..MaxRepeat} \cup {<<"W", "W", "W", ".">>}
UrlHosts ==
    {<<"E", "x", "a", "m", "p", "l", "e", ".", "c", "o", "m">>,
     <<"e", "x", "a", "m", "p", "l", "e", ".", "c", "o", "m">>,
     <<"a", "w", "w", "w", ".", "c", "o">>}
UrlPaths == {EmptyStr, <<"/", "P", "a", "t", "h">>, <<"/", "p", "a", "t", "h">>}
UrlSlashes == {Repeat(<<"/">>, n) : n \in 0..MaxRepeat}
UrlTails == {EmptyStr, <<"?", "x", "=", "1">>, <<"#", "t", "o", "p">>}

\* The URL strings a caller can pass
Urls ==
    {scheme \o www \o host \o path \o slashes \o tail :
        scheme \in UrlSchemes, www \in UrlWwws, host \in UrlHosts, path \in UrlPaths,
        slashes \in UrlSlashes, tail \in UrlTails}

NormalizeInit ==
    /\ NoCall
    /\ arg \in Urls
    /\ ret = None

\* normalized_url = self._normalize_url(website_url)
NormalizeUrl ==
    /\ ret = None
    /\ ret' = Ok(_normalize_url(arg))
    /\ UNCHANGED <<profiler_vars, arg>>

NormalizeNext == NormalizeUrl

NormalizeSpec == NormalizeInit /\ [][NormalizeNext]_vars
(***************************************************************************)
(* Properties                                                              *)
(***************************************************************************)
\* The step of caller p in which its call returns
Returns(p) == pc[p] # "idle" /\ pc'[p] = "idle"

\* The collaborators a log names, in order
Ops(calls) == [i \in 1..Len(calls) |-> calls[i].op]

\* The steps whose failure is fatal
FatalOps == {"scrape", "analyze", "save"}

\* The text of every exception a step of the pipeline can raise
ErrorTexts ==
    {"fetch failed", "generative backend error", "'list' object is not a mapping",
     "store backend error", "duplicate key value violates unique constraint"}

HasReturned == returned # None

FullPipeline == <<"exists", "scrape", "news", "analyze", "save">>

\* C1: every call of profile_company ends by returning a result whose
\* status is success, exists or error; a step that fails never leaves the
\* call as an exception and never ends as success: it ends as status error
\* with the failure's text as message and data = None.  A call makes at
\* most five collaborator calls, none of them twice, so it returns when
\* each of them returns or fails.
C1_TriStateResult ==
    /\ \A p \in Procs :
        /\ Len(log[p]) < Len(FullPipeline)
        /\ \A i, j \in 1..Len(log[p]) : log[p][i].op = log[p][j].op => i = j
    /\ HasReturned =>
        /\ returned.result.status \in {"success", "exists", "error"}
        /\ returned.result.status = "error" =>
            /\ returned.result.data = None
            /\ returned.result.message \in ErrorTexts
        /\ (\E i \in 1..Len(returned.log) :
                returned.log[i].op \in FatalOps /\ ~returned.log[i].ok)
             => returned.result.status = "error"
        /\ Len(returned.log) <= Len(FullPipeline)

C1_Witness ==
    /\ HasReturned
    /\ returned.result.status = "error"
    /\ returned.result.message = "generative backend error"

\* C2: when the existence check of a call finds a record for
\* normalize(raw_url) in the store and the backend answers, the call goes
\* to the read of that record and returns status exists; the scraper, the
\* news fetcher, the analyzer and the store write are not called.
C2_StoredShortCircuits ==
    /\ [][\A p \in Procs :
            (/\ pc[p] = "check"
             /\ pc'[p] # "check"
             /\ SelectByUrl(store, _normalize_url(website_url[p])) # {}
             /\ log'[p][1].ok)
            => pc'[p] = "get"]_vars
    /\ [](\A p \in Procs : pc[p] = "get" => Ops(log[p]) = <<"exists">>)
    /\ []((HasReturned /\ Len(returned.log) >= 2 /\ returned.log[2].op = "get")
            => /\ returned.result.status = "exists"
               /\ Ops(returned.log) = <<"exists", "get">>)

C2_Witness ==
    /\ HasReturned
    /\ returned.result.status = "exists"
    /\ returned.website_url = UrlShouting
    /\ returned.result.data # None

\* C3: a failure of the page fetch, of the generative-backend call or of
\* the store write ends the call at that step: the failing step is the last
\* collaborator call of the call, and the call returns status error with
\* data = None.
C3_FatalFailureAborts ==
    /\ \A p \in Procs : \A i \in 1..Len(log[p]) :
            log[p][i].op \in FatalOps => log[p][i].ok
    /\ HasReturned =>
        \A i \in 1..Len(returned.log) :
            (returned.log[i].op \in FatalOps /\ ~returned.log[i].ok)
            => /\ i = Len(returned.log)
               /\ returned.result.status = "error"
               /\ returned.result.data = None

C3_Witness ==
    /\ HasReturned
    /\ Ops(returned.log) = <<"exists", "scrape">>
    /\ ~returned.log[2].ok
    /\ returned.result.status = "error"

\* C4: the store changes only in the step in which a call returns status
\* success, and then by exactly one added record; a call that returns
\* status error or status exists leaves the store as it was.
C4_OnlySuccessWrites ==
    [][/\ store' # store =>
            \E p \in Procs :
                /\ Returns(p)
                /\ returned'.result.status = "success"
                /\ store \subseteq store'
                /\ Cardinality(store') = Cardinality(store) + 1
       /\ \A p \in Procs :
            (Returns(p) /\ returned'.result.status \in {"error", "exists"})
            => store' = store
       /\ \A p \in Procs :
            (Returns(p) /\ returned'.result.status = "success")
            => store' # store]_vars

C4_Witness ==
    /\ HasReturned
    /\ returned.result.status = "error"
    /\ returned.result.message = "duplicate key value violates unique constraint"
    /\ Cardinality(store) = 1

\* C5: the record a successful call profile_company(raw_url) returns has
\* website_url = normalize(raw_url).
C5_StoredKeyIsNormalizedArgument ==
    (/\ HasReturned
     /\ returned.result.status = "success"
     /\ returned.result.data # EmptyDict)
    => returned.result.data.website_url = _normalize_url(returned.website_url)

\* C6: after a successful profile_company(u1), exists(u2) is true for every
\* u2 with normalize(u2) = normalize(u1), the backend answering.
C6_EquivalentUrlsCollide ==
    \A u1 \in succeeded : \A u2 \in RawUrls :
        _normalize_url(u1) = _normalize_url(u2) => check_company_exists(u2, store, TRUE)

\* C7: of two overlapping calls whose raw URLs have the same normalized key
\* at most one returns status success.  (A Start resets returned, so a call
\* that returns while returned still holds another caller's result began
\* before that caller returned.)
C7_AtMostOneSuccess ==
    [][\A p \in Procs :
        ~(/\ Returns(p)
          /\ returned # None
          /\ returned.caller # p
          /\ returned.result.status = "success"
          /\ returned'.result.status = "success"
          /\ _normalize_url(returned.website_url) = _normalize_url(returned'.website_url))]_vars

\* C8 as stated: a call for a key that is in the store when the call is
\* made returns the stored record of that key as data.
C8_LaterCallReturnsRecord ==
    [][\A p \in Procs : \A row \in store :
        (Returns(p) /\ row.website_url = _normalize_url(website_url[p]))
        => returned'.result.data = row]_vars

\* C8 as amended: the store holds at most one record per key; a write on a
\* key that is present fails and changes nothing; no step removes or
\* changes a record; a call for a stored key whose existence check the
\* backend answers returns status exists, with the stored record as data
\* when the read is answered too and with None when the read fails.
C8_InsertOnly ==
    /\ [](\A r1, r2 \in store : r1.website_url = r2.website_url => r1 = r2)
    /\ [][store \subseteq store']_vars
    /\ [][\A p \in Procs :
            (/\ Returns(p)
             /\ pc[p] = "save"
             /\ ~ProfileDataOf(p).raised
             /\ SelectByUrl(store, SaveRecord(ProfileDataOf(p).value).website_url) # {})
            => /\ returned'.result.status = "error"
               /\ store' = store]_vars
    /\ [][\A p \in Procs : \A row \in store :
            (/\ Returns(p)
             /\ row.website_url = _normalize_url(website_url[p])
             /\ returned'.log[1].ok)
            => /\ returned'.result.status = "exists"
               /\ returned'.result.data = IF returned'.log[2].ok THEN row ELSE None]_vars

C8_Witness ==
    /\ HasReturned
    /\ returned.result.status = "exists"
    /\ returned.result.data \in store
    /\ returned.result.data.website_url = _normalize_url(returned.website_url)
    /\ returned.website_url = UrlShouting

\* C9: when the backend call of the existence check fails, exists is false
\* and the call goes on with the scrape: it does not return at the check,
\* it returns status error only for a failure of a later step, and when no
\* later step fails it runs scrape, news fetch, analysis and save and
\* returns status success.
C9_FailedCheckRunsPipeline ==
    /\ \A u \in RawUrls : ~check_company_exists(u, store, FALSE)
    /\ \A p \in Procs :
        (log[p] # <<>> /\ ~log[p][1].ok)
        => /\ pc[p] \in {"scrape", "news", "analyze", "save"}
           /\ \A i \in 1..Len(log[p]) : log[p][i].op = FullPipeline[i]
    /\ (HasReturned /\ ~returned.log[1].ok) =>
        /\ Len(returned.log) >= 2
        /\ returned.log[2].op = "scrape"
        /\ returned.result.status # "exists"
        /\ returned.result.status = "success" => Ops(returned.log) = FullPipeline
        /\ returned.result.status = "error" =>
            \/ ~returned.log[Len(returned.log)].ok /\ Len(returned.log) >= 2
            \/ returned.result.message = "'list' object is not a mapping"

C9_Witness ==
    /\ HasReturned
    /\ ~returned.log[1].ok
    /\ returned.result.status = "error"
    /\ returned.result.message = "duplicate key value violates unique constraint"
    /\ SelectByUrl(store, _normalize_url(returned.website_url)) # {}

\* C10: when the search provider fails, fetch_company_news returns the
\* empty list, as for a provider that returns no results, and the call goes
\* on with the analysis; it returns status error only when a fatal step
\* fails, and status success when no other step fails.
C10_ProviderFailureIsNotFatal ==
    /\ \A p \in Procs :
        (Len(log[p]) >= 3 /\ ~log[p][3].ok)
        => /\ log[p][3].op = "news"
           /\ news_data[p] = <<>>
           /\ news_data[p] = fetch_company_news(Ok(EmptyDict))
           /\ pc[p] \in {"analyze", "save"}
    /\ (HasReturned /\ Len(returned.log) >= 3 /\ returned.log[3].op = "news"
            /\ ~returned.log[3].ok) =>
        /\ Len(returned.log) >= 4
        /\ returned.log[4].op = "analyze"
        /\ returned.result.status = "error" =>
            \/ ~returned.log[Len(returned.log)].ok /\ Len(returned.log) >= 4
            \/ returned.result.message = "'list' object is not a mapping"
        /\ (Len(returned.log) = 5 /\ returned.log[4].ok /\ returned.log[5].ok)
            => returned.result.status = "success"

C10_Witness ==
    /\ HasReturned
    /\ Len(returned.log) = 5
    /\ ~returned.log[3].ok
    /\ returned.result.status = "success"
    /\ returned.result.data # EmptyDict
    /\ returned.result.data.latest_news = <<>>

\* No run of consecutive tokens of the text is a JSON document
ContainsNoJson(text) ==
    \A i \in 1..Len(text) : \A j \in i..Len(text) : json_loads(SubSeq(text, i, j)).raised

\* C11: for a response text that contains no parseable JSON,
\* _parse_response returns exactly the fixed placeholder structure (and
\* returns: the decode error does not leave it).
C11_NoJsonGivesPlaceholder ==
    (ret # None /\ ContainsNoJson(arg))
    => (~ret.raised /\ ret.value = JsonObject(Placeholder))

C11_Witness ==
    /\ ret # None
    /\ arg = <<Tok("txt"), Tok("{"), Tok("txt"), Tok("}")>>
    /\ ContainsNoJson(arg)
    /\ ret.value = JsonObject(Placeholder)

\* The text has a substring from its first '{' to its last '}'
HasBraceSubstring(text) ==
    FindOpen(text) < Len(text) /\ RFindClosePlus1(text) > FindOpen(text)

\* The parse of the whole text, the placeholder when that fails
WholeOrPlaceholder(whole) == IF whole.raised THEN JsonObject(Placeholder) ELSE whole.value

\* The three stages: the substring, then the whole text, then the placeholder
ThreeStage(text, sub) ==
    IF HasBraceSubstring(text) /\ ~sub.raised
    THEN sub.value
    ELSE WholeOrPlaceholder(json_loads(text))

\* C12: _parse_response returns the parse of the substring from the first
\* '{' to the last '}' when there is one and it parses, else the parse of
\* the entire text when that parses, else the placeholder.
C12_ThreeStageFallback ==
    ret # None =>
        ret.value = ThreeStage(arg, json_loads(JsonStr(arg, FindOpen(arg),
                                                       RFindClosePlus1(arg))))

\* C13: the value analyze_company hands to profile_company is a dict with
\* exactly the six fields of the schema, and no response text makes the
\* call return status error: after an analysis call that returned, status
\* error comes from a failed store write only.
C13_AnalysisIsSixFieldInsight ==
    /\ \A p \in Procs :
        analysis[p] # None =>
            /\ analysis[p].type = "dict"
            /\ DOMAIN analysis[p].d = DOMAIN Placeholder
    /\ (/\ HasReturned
        /\ Len(returned.log) >= 4
        /\ returned.log[4].ok
        /\ returned.result.status = "error")
       => (Len(returned.log) = 5 /\ ~returned.log[5].ok)

\* The response has no news results: the key is missing or its list is empty
ZeroNewsResults(results) ==
    "news_results" \notin DOMAIN results \/ results.news_results = <<>>

\* The response has at least one organic result
SomeOrganicResults(results) ==
    "organic_results" \in DOMAIN results /\ results.organic_results # <<>>

\* C14: for a provider response with zero news results and at least one
\* organic result, fetch_company_news returns a nonempty list of at most
\* num_results articles, each mapped from an organic result (link as
\* source, displayed_link as source_name).
C14_OrganicFallback ==
    (/\ ret # None
     /\ ~arg.raised
     /\ ZeroNewsResults(arg.value)
     /\ SomeOrganicResults(arg.value))
    => /\ ret.value # <<>>
       /\ Len(ret.value) <= NumResults
       /\ \A i \in 1..Len(ret.value) :
            /\ ret.value[i].source = arg.value.organic_results[i].link
            /\ ret.value[i].source_name = arg.value.organic_results[i].displayed_link

\* The URLs and the key of the example
UrlExampleShouting ==
    <<"H", "T", "T", "P", ":", "/", "/", "W", "W", "W", ".", "E", "x", "a", "m", "p", "l",
      "e", ".", "c", "o", "m", "/", "P", "a", "t", "h", "/">>
UrlExamplePlain ==
    <<"h", "t", "t", "p", "s", ":", "/", "/", "e", "x", "a", "m", "p", "l", "e", ".", "c",
      "o", "m", "/", "P", "a", "t", "h">>
KeyExample ==
    <<"h", "t", "t", "p", "s", ":", "/", "/", "e", "x", "a", "m", "p", "l", "e", ".", "c",
      "o", "m", "/", "p", "a", "t", "h">>

\* url with every letter upper-cased
Upper(url) == [i \in 1..Len(url) |-> UpperChar(url[i])]

\* url with http in place of https and https in place of http
OtherScheme(url) ==
    IF StartsWith(Lower(url), Http \o SchemeSep) THEN Https \o Tail0(url, Len(Http))
    ELSE IF StartsWith(Lower(url), Https \o SchemeSep) THEN Http \o Tail0(url, Len(Https))
    ELSE url

\* url with 'www.' put before its host
WithWww(url) ==
    IF StartsWith(Lower(url), Http \o SchemeSep)
    THEN Head0(url, Len(Http) + 3) \o WwwDot \o Tail0(url, Len(Http) + 3)
    ELSE IF StartsWith(Lower(url), Https \o SchemeSep)
    THEN Head0(url, Len(Https) + 3) \o WwwDot \o Tail0(url, Len(Https) + 3)
    ELSE url

\* C15: the two URLs of the example both get the key
\* https://example.com/path, and a URL gets the same key as the URL that
\* differs from it only in http versus https, in letter case, in a leading
\* 'www.' on the host, or in one trailing slash.
C15_EquivalentFormsSameKey ==
    ret # None =>
        /\ arg \in {UrlExampleShouting, UrlExamplePlain} => ret.value = KeyExample
        /\ _normalize_url(OtherScheme(arg)) = ret.value
        /\ _normalize_url(Upper(arg)) = ret.value
        /\ _normalize_url(Lower(arg)) = ret.value
        /\ _normalize_url(WithWww(arg)) = ret.value
        /\ _normalize_url(arg \o <<"/">>) = ret.value

C15_Witness ==
    /\ ret # None
    /\ arg = UrlExampleShouting
    /\ ret.value = KeyExample
    /\ _normalize_url(UrlExamplePlain) = KeyExample

\* The stated rules, applied literally to a parsed lower-cased URL
WithoutLeadingWww(host) == IF StartsWith(host, WwwDot) THEN Tail0(host, Len(WwwDot)) ELSE host

WithoutOneSlash(s) == IF Len(s) > 0 /\ s[Len(s)] = "/" THEN Head0(s, Len(s) - 1) ELSE s

StatedRules(parsed) ==
    WithoutOneSlash(ForceHttps(parsed.scheme) \o SchemeSep
                      \o WithoutLeadingWww(parsed.netloc) \o parsed.path)

\* C16: the key of a URL is what the stated rules give: the URL
\* lower-cased, 'www.' removed only where it is the leading prefix of the
\* host, the scheme replaced by https exactly when it is http or https,
\* scheme, host and path concatenated, exactly one trailing '/' removed.
C16_KeyFollowsStatedRules ==
    ret # None => ret.value = StatedRules(urlparse(Lower(arg)))

\* C20: normalizing a key again gives the same key.
C20_NormalizeIdempotent ==
    ret # None => _normalize_url(ret.value) = ret.value

\* C17 as stated: after a successful call for one URL, exists is false for
\* a URL that differs from it only by a query string or a fragment.
C17_QueryUrlsAreDistinct ==
    \A u1 \in succeeded : \A u2 \in QueryUrls \ {u1} :
        ~check_company_exists(u2, store, TRUE)

\* C17 as amended: URLs that differ only by a query string or a fragment
\* have the same key; while a record with that key is stored, a call for
\* any of them whose existence check the backend answers returns status
\* exists (with that record, or None when the read fails) and leaves the
\* store as it is, so the key never has a second record.
C17_QueryUrlsShareKey ==
    /\ [](\A u \in QueryUrls : _normalize_url(u) = _normalize_url(UrlPlain))
    /\ [](Cardinality(SelectByUrl(store, _normalize_url(UrlPlain))) <= 1)
    /\ [][\A p \in Procs :
            (/\ Returns(p)
             /\ SelectByUrl(store, _normalize_url(UrlPlain)) # {}
             /\ returned'.log[1].ok)
            => /\ returned'.result.status = "exists"
               /\ returned'.result.data
                    \in {None} \cup SelectByUrl(store, _normalize_url(UrlPlain))
               /\ store' = store]_vars

C17_Witness ==
    /\ HasReturned
    /\ succeeded = {UrlPlain}
    /\ returned.website_url = UrlQuery
    /\ returned.result.status = "exists"
    /\ returned.result.data \in store
    /\ returned.result.data.website_url = _normalize_url(UrlPlain)
    /\ Cardinality(store) = 1

\* The collaborator calls a call has made when it is at each statement
CallsBefore ==
    [check   |-> <<>>,
     get     |-> <<"exists">>,
     scrape  |-> <<"exists">>,
     news    |-> <<"exists", "scrape">>,
     analyze |-> <<"exists", "scrape", "news">>,
     save    |-> <<"exists", "scrape", "news", "analyze">>,
     idle    |-> <<>>]

\* C18: within one call the collaborators are called in the order
\* existence check, page scrape, news fetch, analysis, store write, each
\* after the previous one has returned and each at most once; the analyzer
\* is called only after the scrape and the news fetch have returned, the
\* store write only after the analysis has returned.
C18_StepsInOrder ==
    /\ \A p \in Procs :
        /\ Ops(log[p]) = CallsBefore[pc[p]]
        /\ pc[p] \in {"analyze", "save"} => scraped_data[p] # None
        /\ pc[p] = "save" => analysis[p] # None
    /\ HasReturned =>
        \/ Ops(returned.log) = <<"exists", "get">>
        \/ /\ Len(returned.log) \in 2..Len(FullPipeline)
           /\ Ops(returned.log) = Head0(FullPipeline, Len(returned.log))

C18_Witness ==
    /\ HasReturned
    /\ Ops(returned.log) = FullPipeline
    /\ returned.result.status = "success"
    /\ returned.result.data # EmptyDict

\* C19: a call that returns status exists returns a stored record as data,
\* never None, and the record's website_url is normalize(raw_url).
C19_ExistsCarriesRecord ==
    (HasReturned /\ returned.result.status = "exists")
    => /\ returned.result.data # None
       /\ returned.result.data \in store
       /\ returned.result.data.website_url = _normalize_url(returned.website_url)
====
